---- MODULE Spec2Model ----
(***************************************************************************)
(* quckapp: the file-service and the message-service REST handlers over    *)
(* their MongoDB collections ("files", "messages").                        *)
(*                                                                         *)
(* The database is the only shared state.  Every handler is one action,    *)
(* except list_files, which makes two database calls (find, then           *)
(* count_documents) and is therefore two steps other requests may run      *)
(* between.  Each database call may fail.  resp is the response being      *)
(* written to the client: a handler leaves it there and respond takes it   *)
(* away, so that a state with a response in it is the state right after    *)
(* the handler that made it.                                               *)
(*                                                                         *)
(* dbfail in a response or in pending says that a database call of the      *)
(* request failed; at is the time the request was handled.                 *)
(*                                                                         *)
(* Option<T> is a sequence of length at most one: None is <<>>, Some(x) is *)
(* <<x>>; a field that serde skips when None and a field stored as null    *)
(* are both None, as the query {field: null} matches both.                 *)
(***************************************************************************)
EXTENDS Integers, Sequences, FiniteSets, TLC

VARIABLES service, files, messages, now, pending, resp

vars == <<service, files, messages, now, pending, resp>>

-----------------------------------------------------------------------------
(* Bounds of the model *)

MaxFiles == 2
MaxMsgs == 2
MaxTime == 1
MaxReactions == 2
OidHexLen == 2

-----------------------------------------------------------------------------
(* Option<T> *)

None == <<>>
Some(x) == <<x>>
is_some(o) == Len(o) = 1
unwrap(o) == o[1]
unwrap_or(o, d) == IF is_some(o) THEN o[1] ELSE d

Min(a, b) == IF a <= b THEN a ELSE b
Abs(a) == IF a < 0 THEN 0 - a ELSE a

RECURSIVE Pow16(_)
Pow16(k) == IF k = 0 THEN 1 ELSE 16 * Pow16(k - 1)

-----------------------------------------------------------------------------
(* Input domains *)

Workspaces == {"w1", "w2"}
Channels == {"c1", "c2"}
Users == {"u1", "u2"}
Threads == {"t1"}
Emojis == {"e1", "e2"}
Contents == {"hi", "yo"}
OptOf(S) == {None} \cup {Some(x) : x \in S}
LimitInputs == {None, Some(-1), Some(0), Some(1), Some(101)}
Services == {"file-service", "message-service"}

-----------------------------------------------------------------------------
(* ObjectId and its hex form.  An ObjectId is a number; its hex form is a   *)
(* string of OidHexLen hex digits, each character given by its digit value, *)
(* a character that is no hex digit by 16.                                  *)

to_hex(oid) == [i \in 1..OidHexLen |-> (oid \div Pow16(OidHexLen - i)) % 16]

RECURSIVE HexValue(_)
HexValue(s) == IF Len(s) = 0 THEN 0
               ELSE 16 * HexValue(SubSeq(s, 1, Len(s) - 1)) + s[Len(s)]

parse_str(s) ==
    IF Len(s) = OidHexLen /\ \A i \in 1..Len(s) : s[i] \in 0..15
    THEN [ok |-> TRUE, oid |-> HexValue(s)]
    ELSE [ok |-> FALSE, oid |-> 0]

MalformedIds == {<<16>> \o [i \in 1..(OidHexLen - 1) |-> 0], <<1>>}
FilePathIds == {to_hex(i) : i \in 1..(MaxFiles + 1)} \cup MalformedIds
MsgPathIds == {to_hex(i) : i \in 1..(MaxMsgs + 1)} \cup MalformedIds

-----------------------------------------------------------------------------
(* Documents.  A record is stored as the document serde makes of it: a     *)
(* DateTime<Utc> field becomes an RFC 3339 string, and is read back from a   *)
(* string only.  A Utc::now() placed in a doc! document is a BSON datetime.  *)

\* chrono's Serialize of DateTime<Utc>.  The strings are taken to order as
\* their times do.
to_rfc3339(t) == [bson |-> "string", at |-> t]

\* Bson::from(DateTime<Utc>), as doc! applies it
bson_datetime(t) == [bson |-> "datetime", at |-> t]

DateTimeFields == {"created_at", "updated_at"}
OptionDateTimeFields == {"deleted_at", "edited_at"}

\* bson::to_document of a File or a Message
to_document(rec) ==
    [f \in DOMAIN rec |->
        IF f \in DateTimeFields THEN to_rfc3339(rec[f])
        ELSE IF f \in OptionDateTimeFields /\ is_some(rec[f])
        THEN Some(to_rfc3339(unwrap(rec[f])))
        ELSE rec[f]]

\* bson::from_document to a File or a Message: an error when a DateTime<Utc>
\* field holds anything but a string
from_document(d) ==
    LET dates == {d[f] : f \in DOMAIN d \cap DateTimeFields}
                 \cup {unwrap(d[f]) :
                        f \in {g \in DOMAIN d \cap OptionDateTimeFields : is_some(d[g])}}
    IN  [ok |-> \A b \in dates : b.bson = "string",
         value |-> [f \in DOMAIN d |->
                      IF f \in DateTimeFields THEN d[f].at
                      ELSE IF f \in OptionDateTimeFields /\ is_some(d[f])
                      THEN Some(unwrap(d[f]).at)
                      ELSE d[f]]]

\* try_collect of a cursor: an error when one of its documents is not read
try_collect(found) ==
    [ok |-> \A i \in DOMAIN found : from_document(found[i]).ok,
     value |-> [i \in DOMAIN found |-> from_document(found[i]).value]]

-----------------------------------------------------------------------------
(* The document database *)

\* insert_one: the driver assigns a fresh _id to a document that has none
NewOid(coll) == Cardinality(DOMAIN coll) + 1

insert_one(coll, doc) ==
    LET oid == NewOid(coll)
    IN  [o \in DOMAIN coll \cup {oid} |->
            IF o = oid THEN [doc EXCEPT !.id = Some(oid)] ELSE coll[o]]

\* A filter document {field: value, ...}: a document matches when each field
\* named has the value given; {field: null} matches a null or missing field
matches(d, filter) == \A f \in DOMAIN filter : d[f] = filter[f]

matching(coll, filter) == {o \in DOMAIN coll : matches(coll[o], filter)}

\* filter.insert(field, value)
insert(filter, field, value) == (field :> value) @@ filter

\* $push in place of $addToSet
push(arr, e) == Append(arr, e)

\* $addToSet: the element is appended unless the array holds an equal one
add_to_set(arr, e) ==
    IF \E i \in DOMAIN arr : arr[i] = e THEN arr ELSE Append(arr, e)

\* A pull that removes the first matching element only
pull_first(arr, cond) ==
    IF \E i \in DOMAIN arr : matches(arr[i], cond)
    THEN LET k == CHOOSE i \in DOMAIN arr :
                    /\ matches(arr[i], cond)
                    /\ \A j \in 1..(i - 1) : ~matches(arr[j], cond)
         IN  SubSeq(arr, 1, k - 1) \o SubSeq(arr, k + 1, Len(arr))
    ELSE arr

\* $pull {field: cond}: every element of the array that matches cond is removed
pull(arr, cond) == SelectSeq(arr, LAMBDA r : ~matches(r, cond))

\* An update document {operator: {field: value, ...}}
Update(op, fields) == [op |-> op, fields |-> fields]

\* An update document taken as a replacement: the document keeps its _id and
\* is given the fields of the update, losing the others
replace_document(d, u) == [f \in {"id"} \cup DOMAIN u.fields |->
                             IF f = "id" THEN d.id ELSE u.fields[f]]

apply_update(d, u) ==
    [f \in DOMAIN d |->
        IF f \notin DOMAIN u.fields THEN d[f]
        ELSE IF u.op = "$set" THEN u.fields[f]
        ELSE IF u.op = "$addToSet" THEN add_to_set(d[f], u.fields[f])
        ELSE pull(d[f], u.fields[f])]

\* update_one with upsert: a document is inserted when none matches
upsert_one(coll, oid, u) ==
    [o \in DOMAIN coll \cup {oid} |->
        IF o # oid THEN coll[o]
        ELSE IF o \in DOMAIN coll THEN apply_update(coll[o], u)
        ELSE u.fields]

\* update_one({_id: oid}, update): no match is not an error
update_one(coll, oid, u) ==
    [o \in DOMAIN coll |-> IF o = oid THEN apply_update(coll[o], u) ELSE coll[o]]

\* All orders the sort {created_at: dir} may return the documents ids in (the
\* order of documents with equal created_at is unspecified).
SortedBy(coll, ids, dir) ==
    {s \in [1..Cardinality(ids) -> ids] :
        /\ \A i, j \in DOMAIN s : i # j => s[i] # s[j]
        /\ \A i, j \in DOMAIN s : i < j =>
              IF dir = 1 THEN coll[s[i]].created_at.at <= coll[s[j]].created_at.at
                         ELSE coll[s[i]].created_at.at >= coll[s[j]].created_at.at}

\* FindOptions::limit: 0 is no limit, a negative limit asks for one batch of
\* at most |limit| documents
apply_limit(s, limit) ==
    IF limit = 0 THEN s ELSE SubSeq(s, 1, Min(Abs(limit), Len(s)))

\* find(filter, sort, limit): the documents its cursor may yield
find(coll, filter, dir, limit) ==
    {[i \in DOMAIN apply_limit(s, limit) |-> coll[s[i]]] :
        s \in SortedBy(coll, matching(coll, filter), dir)}

count_documents(coll, filter) == Cardinality(matching(coll, filter))

-----------------------------------------------------------------------------
(* Responses *)

DEFAULT_LIMIT == 50
MAX_LIMIT == 100

effective_limit(limit) == Min(unwrap_or(limit, DEFAULT_LIMIT), MAX_LIMIT)

Response(op, status, at, dbfail, id, q, body) ==
    [op |-> op, status |-> status, at |-> at, dbfail |-> dbfail,
     id |-> id, q |-> q, body |-> body]

NoBody == [kind |-> "none"]
ErrorBody == [kind |-> "error"]
BadRequest(op, id) == Response(op, 400, now, FALSE, id, None, ErrorBody)
InternalServerError(op, id, q) == Response(op, 500, now, TRUE, id, q, ErrorBody)

\* The Err arm taken for a document that is found and not read: the database
\* has not failed
DecodeError(op, id) == Response(op, 500, now, FALSE, id, None, ErrorBody)

S3Bucket == "quckchat-files"

-----------------------------------------------------------------------------
(* The clock: Utc::now() never goes back; between two readings of one       *)
(* handler it may advance.                                                  *)

LaterReadings == {t \in now..(now + 1) : t <= MaxTime}

\* No response is being written
Idle == Response("idle", 0, 0, FALSE, None, None, NoBody)

Tick ==
    /\ resp.op = "idle"
    /\ now < MaxTime
    /\ now' = now + 1
    /\ UNCHANGED <<service, files, messages, pending, resp>>

\* The response has been written to the client
respond ==
    /\ resp.op # "idle"
    /\ resp' = Idle
    /\ UNCHANGED <<service, files, messages, now, pending>>

\* The service takes the next request of the connection
Accepts(svc) == service = svc /\ resp.op = "idle"

-----------------------------------------------------------------------------
(* file-service *)

UploadRequests ==
    {[workspace_id |-> "w1", channel_id |-> None],
     [workspace_id |-> "w2", channel_id |-> Some("c1")]}
FileQueries ==
    [workspace_id : {None}, channel_id : {None}, limit : LimitInputs]
    \cup {[workspace_id |-> Some("w1"), channel_id |-> None, limit |-> Some(1)],
          [workspace_id |-> None, channel_id |-> Some("c1"), limit |-> None]}

NewFile(q, created, updated) ==
    [id |-> None,
     storage_key |-> <<"files", q.workspace_id, NewOid(files)>>,
     workspace_id |-> q.workspace_id,
     channel_id |-> q.channel_id,
     is_public |-> FALSE,
     deleted_at |-> None,
     created_at |-> created,
     updated_at |-> updated]

upload_file(q, db_ok, t2) ==
    LET file == NewFile(q, now, t2)
    IN  /\ Cardinality(DOMAIN files) < MaxFiles
        /\ now' = t2
        /\ IF db_ok
           THEN /\ files' = insert_one(files, to_document(file))
                /\ resp' = Response("upload_file", 201, now, FALSE, None, q,
                                    [kind |-> "file",
                                     file |-> [file EXCEPT !.id = Some(NewOid(files))]])
           ELSE /\ files' = files
                /\ resp' = InternalServerError("upload_file", None, q)
        /\ UNCHANGED <<service, messages, pending>>

get_file(id, db_ok) ==
    LET p == parse_str(id)
    IN  /\ pending = None
        /\ resp' =
             IF ~p.ok THEN BadRequest("get_file", id)
             ELSE IF ~db_ok THEN InternalServerError("get_file", id, None)
             ELSE IF p.oid \in matching(files, [deleted_at |-> None])
             THEN IF from_document(files[p.oid]).ok
                  THEN Response("get_file", 200, now, FALSE, id, None,
                                [kind |-> "file", file |-> from_document(files[p.oid]).value,
                                 download_url |-> <<"/api/v1/files/", id, "/download">>])
                  ELSE DecodeError("get_file", id)
             ELSE Response("get_file", 404, now, FALSE, id, None, ErrorBody)
        /\ UNCHANGED <<service, files, messages, now, pending>>

file_filter(q) ==
    LET f0 == [deleted_at |-> None]
        f1 == IF is_some(q.workspace_id)
              THEN insert(f0, "workspace_id", unwrap(q.workspace_id)) ELSE f0
    IN  IF is_some(q.channel_id) THEN insert(f1, "channel_id", q.channel_id) ELSE f1

\* list_files, first call: collection.find(filter, options) and try_collect
list_files_find(q, db_ok, collect_ok) ==
    /\ pending = None
    /\ IF ~db_ok
       THEN /\ resp' = InternalServerError("list_files", None, q)
            /\ pending' = pending
       ELSE /\ \E found \in find(files, file_filter(q), -1, effective_limit(q.limit)) :
                  pending' = Some([q |-> q, at |-> now, dbfail |-> ~collect_ok,
                                   files |-> IF collect_ok /\ try_collect(found).ok
                                             THEN try_collect(found).value ELSE <<>>])
            /\ resp' = resp
    /\ UNCHANGED <<service, files, messages, now>>

\* list_files, second call: collection.count_documents(filter)
list_files_count(count_ok) ==
    /\ pending # None
    /\ LET p == unwrap(pending)
           total == IF count_ok
                    THEN count_documents(files, file_filter(p.q))
                    ELSE 0
       IN  resp' = Response("list_files", 200, p.at, p.dbfail \/ ~count_ok, None, p.q,
                            [kind |-> "files", files |-> p.files, total |-> total])
    /\ pending' = None
    /\ UNCHANGED <<service, files, messages, now>>

set_deleted_at(t) == Update("$set", [deleted_at |-> Some(bson_datetime(t))])

delete_file(id, db_ok) ==
    LET p == parse_str(id)
    IN  /\ IF ~p.ok
           THEN /\ resp' = BadRequest("delete_file", id)
                /\ files' = files
           ELSE IF ~db_ok
           THEN /\ resp' = InternalServerError("delete_file", id, None)
                /\ files' = files
           ELSE /\ files' = update_one(files, p.oid, set_deleted_at(now))
                /\ resp' = Response("delete_file", 204, now, FALSE, id, None, NoBody)
        /\ UNCHANGED <<service, messages, now, pending>>

download_file(id, db_ok) ==
    LET p == parse_str(id)
    IN  /\ pending = None
        /\ resp' =
             IF ~p.ok THEN BadRequest("download_file", id)
             ELSE IF ~db_ok THEN InternalServerError("download_file", id, None)
             ELSE IF p.oid \in matching(files, <<>>)
             THEN IF from_document(files[p.oid]).ok
                  THEN Response("download_file", 307, now, FALSE, id, None,
                                [kind |-> "redirect",
                                 location |-> <<"https://", S3Bucket, ".s3.amazonaws.com/",
                                                from_document(files[p.oid]).value.storage_key>>])
                  ELSE DecodeError("download_file", id)
             ELSE Response("download_file", 404, now, FALSE, id, None, ErrorBody)
        /\ UNCHANGED <<service, files, messages, now, pending>>

set_is_public == Update("$set", [is_public |-> TRUE])

share_file(id, db_ok) ==
    LET p == parse_str(id)
    IN  /\ IF ~p.ok
           THEN /\ resp' = BadRequest("share_file", id)
                /\ files' = files
           ELSE IF ~db_ok
           THEN /\ resp' = InternalServerError("share_file", id, None)
                /\ files' = files
           ELSE /\ files' = update_one(files, p.oid, set_is_public)
                /\ resp' = Response("share_file", 200, now, FALSE, id, None,
                                    [kind |-> "share",
                                     share_url |-> <<"/api/v1/files/", id, "/download">>])
        /\ UNCHANGED <<service, messages, now, pending>>

-----------------------------------------------------------------------------
(* message-service *)

CreateMessageRequests ==
    {[channel_id |-> "c1", user_id |-> "u1", content |-> "hi", thread_id |-> None],
     [channel_id |-> "c1", user_id |-> "u2", content |-> "hi", thread_id |-> Some("t1")],
     [channel_id |-> "c2", user_id |-> "u1", content |-> "hi", thread_id |-> None]}
UpdateMessageRequests == [content : OptOf({"yo"})]
AddReactionRequests ==
    {[user_id |-> "u1", emoji |-> "e1"], [user_id |-> "u2", emoji |-> "e1"],
     [user_id |-> "u1", emoji |-> "e2"]}
MessageQueries ==
    [channel_id : {None}, user_id : {None}, limit : LimitInputs]
    \cup {[channel_id |-> Some("c1"), user_id |-> None, limit |-> Some(1)],
          [channel_id |-> None, user_id |-> Some("u1"), limit |-> None]}
LimitQueries == [channel_id : {None}, user_id : {None}, limit : LimitInputs]

NewMessage(body, created, updated) ==
    [id |-> None,
     channel_id |-> body.channel_id,
     user_id |-> body.user_id,
     content |-> body.content,
     thread_id |-> body.thread_id,
     reactions |-> <<>>,
     edited_at |-> None,
     deleted_at |-> None,
     is_pinned |-> FALSE,
     created_at |-> created,
     updated_at |-> updated]

create_message(body, db_ok, t2) ==
    LET message == NewMessage(body, now, t2)
    IN  /\ Cardinality(DOMAIN messages) < MaxMsgs
        /\ now' = t2
        /\ IF db_ok
           THEN /\ messages' = insert_one(messages, to_document(message))
                /\ resp' = Response("create_message", 201, now, FALSE, None, body,
                                    [kind |-> "message",
                                     message |-> [message EXCEPT !.id = Some(NewOid(messages))]])
           ELSE /\ messages' = messages
                /\ resp' = InternalServerError("create_message", None, body)
        /\ UNCHANGED <<service, files, pending>>

\* get_message with the filter of download_file: {_id} without deleted_at
get_message_any(id, db_ok) ==
    LET p == parse_str(id)
    IN  /\ resp' =
             IF ~p.ok THEN BadRequest("get_message", id)
             ELSE IF ~db_ok THEN InternalServerError("get_message", id, None)
             ELSE IF p.oid \in matching(messages, <<>>)
             THEN IF from_document(messages[p.oid]).ok
                  THEN Response("get_message", 200, now, FALSE, id, None,
                                [kind |-> "message",
                                 message |-> from_document(messages[p.oid]).value])
                  ELSE DecodeError("get_message", id)
             ELSE Response("get_message", 404, now, FALSE, id, None, ErrorBody)
        /\ UNCHANGED <<service, files, messages, now, pending>>

get_message(id, db_ok) ==
    LET p == parse_str(id)
    IN  /\ resp' =
             IF ~p.ok THEN BadRequest("get_message", id)
             ELSE IF ~db_ok THEN InternalServerError("get_message", id, None)
             ELSE IF p.oid \in matching(messages, [deleted_at |-> None])
             THEN IF from_document(messages[p.oid]).ok
                  THEN Response("get_message", 200, now, FALSE, id, None,
                                [kind |-> "message",
                                 message |-> from_document(messages[p.oid]).value])
                  ELSE DecodeError("get_message", id)
             ELSE Response("get_message", 404, now, FALSE, id, None, ErrorBody)
        /\ UNCHANGED <<service, files, messages, now, pending>>

\* The cursor taken from messages.first()
first_cursor(page) ==
    IF Len(page) = 0 THEN None
    ELSE IF is_some(page[1].id) THEN Some(to_hex(unwrap(page[1].id)))
    ELSE None

\* cursor: messages.last().and_then(|m| m.id.map(|id| id.to_hex()))
last_cursor(page) ==
    IF Len(page) = 0 THEN None
    ELSE IF is_some(page[Len(page)].id) THEN Some(to_hex(unwrap(page[Len(page)].id)))
    ELSE None

MessagesResponse(page, limit, cursor) ==
    [kind |-> "messages", messages |-> page, has_more |-> (Len(page) = limit),
     cursor |-> cursor]

\* find, try_collect().unwrap_or_default() and the response, as list_messages,
\* get_channel_messages and get_thread_messages share them
messages_page(op, id, q, filter, dir, with_cursor, db_ok, collect_ok) ==
    LET limit == effective_limit(q.limit)
    IN  IF ~db_ok
        THEN resp' = InternalServerError(op, id, q)
        ELSE \E found \in find(messages, filter, dir, limit) :
               LET page == IF collect_ok /\ try_collect(found).ok
                           THEN try_collect(found).value ELSE <<>>
               IN  resp' = Response(op, 200, now, ~collect_ok, id, q,
                                    MessagesResponse(page, limit,
                                        IF with_cursor THEN last_cursor(page) ELSE None))

list_filter(q) ==
    LET f0 == [deleted_at |-> None]
        f1 == IF is_some(q.channel_id)
              THEN insert(f0, "channel_id", unwrap(q.channel_id)) ELSE f0
    IN  IF is_some(q.user_id) THEN insert(f1, "user_id", unwrap(q.user_id)) ELSE f1

list_messages(q, db_ok, collect_ok) ==
    /\ messages_page("list_messages", None, q, list_filter(q), -1, TRUE,
                     db_ok, collect_ok)
    /\ UNCHANGED <<service, files, messages, now, pending>>

\* An update document that stamps the times only when content is supplied
set_update_if_content(t1, t2, content) ==
    IF is_some(content)
    THEN Update("$set", [updated_at |-> bson_datetime(t1),
                         edited_at |-> Some(bson_datetime(t2)),
                         content |-> unwrap(content)])
    ELSE Update("$set", <<>>)

set_update(t1, t2, content) ==
    LET set == [updated_at |-> bson_datetime(t1), edited_at |-> Some(bson_datetime(t2))]
    IN  Update("$set", IF is_some(content) THEN insert(set, "content", unwrap(content))
                       ELSE set)

\* An update by id: the id is parsed, then one update_one is made
update_by_id(op, status, id, q, body, u, db_ok) ==
    LET p == parse_str(id)
    IN  IF ~p.ok
        THEN /\ resp' = BadRequest(op, id)
             /\ messages' = messages
        ELSE IF ~db_ok
        THEN /\ resp' = InternalServerError(op, id, q)
             /\ messages' = messages
        ELSE /\ messages' = update_one(messages, p.oid, u)
             /\ resp' = Response(op, status, now, FALSE, id, q, body)

update_message(id, body, db_ok, t2) ==
    /\ update_by_id("update_message", 200, id, body, [kind |-> "Updated"],
                    set_update(now, t2, body.content), db_ok)
    /\ now' = t2
    /\ UNCHANGED <<service, files, pending>>

delete_message(id, db_ok) ==
    /\ update_by_id("delete_message", 204, id, None, NoBody,
                    set_deleted_at(now), db_ok)
    /\ UNCHANGED <<service, files, now, pending>>

NewReaction(body) == [emoji |-> body.emoji, user_ids |-> <<body.user_id>>, count |-> 1]

add_to_reactions(body) == Update("$addToSet", [reactions |-> NewReaction(body)])

pull_from_reactions(emoji) == Update("$pull", [reactions |-> [emoji |-> emoji]])

add_reaction(id, body, db_ok) ==
    /\ parse_str(id).ok /\ db_ok /\ parse_str(id).oid \in DOMAIN messages
          => Len(add_to_set(messages[parse_str(id).oid].reactions, NewReaction(body)))
                <= MaxReactions
    /\ update_by_id("add_reaction", 200, id, body, [kind |-> "Reaction added"],
                    add_to_reactions(body), db_ok)
    /\ UNCHANGED <<service, files, now, pending>>

remove_reaction(id, emoji, db_ok) ==
    /\ update_by_id("remove_reaction", 204, id, Some(emoji), NoBody,
                    pull_from_reactions(emoji), db_ok)
    /\ UNCHANGED <<service, files, now, pending>>

\* A pin that also refreshes updated_at
set_is_pinned_and_updated_at(v) ==
    Update("$set", [is_pinned |-> v, updated_at |-> bson_datetime(now)])

set_is_pinned(v) == Update("$set", [is_pinned |-> v])

pin_message(id, db_ok) ==
    /\ update_by_id("pin_message", 200, id, None, [kind |-> "Pinned"],
                    set_is_pinned(TRUE), db_ok)
    /\ UNCHANGED <<service, files, now, pending>>

unpin_message(id, db_ok) ==
    /\ update_by_id("unpin_message", 200, id, None, [kind |-> "Unpinned"],
                    set_is_pinned(FALSE), db_ok)
    /\ UNCHANGED <<service, files, now, pending>>

channel_filter(channel_id) ==
    [channel_id |-> channel_id, deleted_at |-> None, thread_id |-> None]

get_channel_messages(channel_id, q, db_ok, collect_ok) ==
    /\ messages_page("get_channel_messages", Some(channel_id), q,
                     channel_filter(channel_id), -1, TRUE, db_ok, collect_ok)
    /\ UNCHANGED <<service, files, messages, now, pending>>

thread_filter(thread_id) == [thread_id |-> Some(thread_id), deleted_at |-> None]

\* get_thread_messages with the sort of the other listings: {created_at: -1}
get_thread_messages_newest_first(thread_id, q, db_ok, collect_ok) ==
    /\ messages_page("get_thread_messages", Some(thread_id), q,
                     thread_filter(thread_id), -1, FALSE, db_ok, collect_ok)
    /\ UNCHANGED <<service, files, messages, now, pending>>

get_thread_messages(thread_id, q, db_ok, collect_ok) ==
    /\ messages_page("get_thread_messages", Some(thread_id), q,
                     thread_filter(thread_id), 1, FALSE, db_ok, collect_ok)
    /\ UNCHANGED <<service, files, messages, now, pending>>

-----------------------------------------------------------------------------

Init ==
    /\ service \in Services
    /\ files = <<>>
    /\ messages = <<>>
    /\ now = 0
    /\ pending = None
    /\ resp = Idle

\* The requests the clients send.  The file service's requests come one after
\* the other, but for list_files: between its two database calls the writers
\* (upload, delete, share) run.  The message service's requests come one
\* after the other; update, reactions and pin are sent for the first message,
\* for an id no message has and for a malformed id, the others for every id.
EditPathIds == {to_hex(1), to_hex(MaxMsgs + 1)} \cup MalformedIds

Next ==
    \/ Tick
    \/ respond
    \/ Accepts("file-service") /\
          \E q \in UploadRequests, ok \in BOOLEAN, t2 \in LaterReadings : upload_file(q, ok, t2)
    \/ Accepts("file-service") /\
          \E id \in FilePathIds, ok \in BOOLEAN : get_file(id, ok)
    \/ Accepts("file-service") /\
          \E q \in FileQueries, ok \in BOOLEAN, cok \in BOOLEAN : list_files_find(q, ok, cok)
    \/ Accepts("file-service") /\
          \E ok \in BOOLEAN : list_files_count(ok)
    \/ Accepts("file-service") /\
          \E id \in FilePathIds, ok \in BOOLEAN : delete_file(id, ok)
    \/ Accepts("file-service") /\
          \E id \in FilePathIds, ok \in BOOLEAN : download_file(id, ok)
    \/ Accepts("file-service") /\
          \E id \in FilePathIds, ok \in BOOLEAN : share_file(id, ok)
    \/ Accepts("message-service") /\
          \E b \in CreateMessageRequests, ok \in BOOLEAN, t2 \in LaterReadings :
             create_message(b, ok, t2)
    \/ Accepts("message-service") /\
          \E id \in MsgPathIds, ok \in BOOLEAN : get_message(id, ok)
    \/ Accepts("message-service") /\
          \E q \in MessageQueries, ok \in BOOLEAN, cok \in BOOLEAN : list_messages(q, ok, cok)
    \/ Accepts("message-service") /\
          \E id \in EditPathIds, b \in UpdateMessageRequests, ok \in BOOLEAN,
             t2 \in LaterReadings : update_message(id, b, ok, t2)
    \/ Accepts("message-service") /\
          \E id \in MsgPathIds, ok \in BOOLEAN : delete_message(id, ok)
    \/ Accepts("message-service") /\
          \E id \in EditPathIds, b \in AddReactionRequests, ok \in BOOLEAN :
             add_reaction(id, b, ok)
    \/ Accepts("message-service") /\
          \E id \in EditPathIds, e \in Emojis, ok \in BOOLEAN : remove_reaction(id, e, ok)
    \/ Accepts("message-service") /\
          \E id \in EditPathIds, ok \in BOOLEAN : pin_message(id, ok)
    \/ Accepts("message-service") /\
          \E id \in EditPathIds, ok \in BOOLEAN : unpin_message(id, ok)
    \/ Accepts("message-service") /\
          \E c \in Channels, q \in LimitQueries, ok \in BOOLEAN, cok \in BOOLEAN :
             get_channel_messages(c, q, ok, cok)
    \/ Accepts("message-service") /\
          \E t \in Threads, q \in LimitQueries, ok \in BOOLEAN, cok \in BOOLEAN :
             get_thread_messages(t, q, ok, cok)

Spec == Init /\ [][Next]_vars

-----------------------------------------------------------------------------
(* What the claims speak of *)

ListOps == {"list_files", "list_messages", "get_channel_messages", "get_thread_messages"}
MessageListOps == {"list_messages", "get_channel_messages", "get_thread_messages"}
EditOps == {"update_message", "add_reaction", "remove_reaction", "pin_message",
            "unpin_message"}

\* The records of a list response
Page == IF resp.body.kind = "files" THEN resp.body.files
        ELSE IF resp.body.kind = "messages" THEN resp.body.messages
        ELSE <<>>

IsList(ops) == resp.op \in ops /\ resp.status = 200

\* The stored record a request by id is about, when its id is well formed
Target == parse_str(resp.id).oid
HasTarget(coll) == resp.id # None /\ parse_str(resp.id).ok /\ Target \in DOMAIN coll

Deleted(coll) == {o \in DOMAIN coll : is_some(coll[o].deleted_at)}

Max(a, b) == IF a >= b THEN a ELSE b

-----------------------------------------------------------------------------
(* C1 *)

StaysDeleted ==
    /\ Deleted(files) \subseteq Deleted(files')
    /\ Deleted(messages) \subseteq Deleted(messages')

\* The find of list_files returns no file that is deleted when it runs
FindSkipsDeleted ==
    pending = None /\ pending' # None =>
        \A i \in DOMAIN unwrap(pending').files :
            unwrap(unwrap(pending').files[i].id) \notin Deleted(files)

HiddenWhenDeleted ==
    /\ resp.op = "get_file" /\ HasTarget(files) /\ Target \in Deleted(files)
          => resp.status = IF resp.dbfail THEN 500 ELSE 404
    /\ resp.op = "get_message" /\ HasTarget(messages) /\ Target \in Deleted(messages)
          => resp.status = IF resp.dbfail THEN 500 ELSE 404
    /\ IsList(MessageListOps)
          => \A i \in DOMAIN Page : unwrap(Page[i].id) \notin Deleted(messages)
    /\ IsList({"list_files"})
          => \A i \in DOMAIN Page : Page[i].deleted_at = None

\* download of a deleted file answers the redirect built from its storage key
\* (500 when the database failed the request)
DownloadOfDeletedRedirects ==
    resp.op = "download_file" /\ HasTarget(files) /\ Target \in Deleted(files)
        => IF resp.dbfail THEN resp.status = 500
           ELSE /\ resp.status = 307
                /\ resp.body.location =
                      <<"https://", S3Bucket, ".s3.amazonaws.com/",
                        files[Target].storage_key>>

\* C1: soft delete is one-way and hides the record.  A record whose deleted_at
\* is set keeps it set whatever request follows; get of it answers 404, no
\* listing whose find runs afterwards holds it, and download of a deleted file
\* still answers the redirect built from its storage key.
C1_SoftDeleteOneWay ==
    /\ [][StaysDeleted /\ FindSkipsDeleted]_vars
    /\ [](HiddenWhenDeleted /\ DownloadOfDeletedRedirects)

\* The part of C1 that is about deleted_at, get and the listings
C1_DeletedStaysHidden == [][StaysDeleted /\ FindSkipsDeleted]_vars /\ []HiddenWhenDeleted

\* A message deleted at time 0 and updated afterwards (edited_at 1) is asked
\* for and not found
C1_Witness ==
    /\ resp.op = "get_message" /\ resp.status = 404
    /\ HasTarget(messages)
    /\ messages[Target].deleted_at = Some(bson_datetime(0))
    /\ messages[Target].edited_at = Some(bson_datetime(1))
    /\ messages[Target].is_pinned

-----------------------------------------------------------------------------
(* C2 *)

\* C2: every list response holds at most min(requested limit, 100) records, at
\* most 50 when no limit is given (and none for a limit below 0).
C2_ListAtMostLimit ==
    IsList(ListOps) =>
        Len(Page) <= IF resp.q.limit = None THEN 50
                     ELSE Max(0, Min(unwrap(resp.q.limit), 100))

-----------------------------------------------------------------------------
(* C3 *)

Created == IF resp.op = "upload_file" THEN resp.body.file ELSE resp.body.message
CreatedIn == IF resp.op = "upload_file" THEN files ELSE messages

\* C3: a successful create returns a record with an assigned id and
\* created_at = updated_at, and stores the same.
C3_CreatedAtIsUpdatedAt ==
    resp.op \in {"upload_file", "create_message"} /\ resp.status = 201 =>
        /\ is_some(Created.id)
        /\ Created.created_at = Created.updated_at
        /\ unwrap(Created.id) \in DOMAIN CreatedIn
        /\ CreatedIn[unwrap(Created.id)].created_at
              = CreatedIn[unwrap(Created.id)].updated_at

-----------------------------------------------------------------------------
(* C4 *)

\* C4: a request one of whose database calls failed is answered 500.
C4_StorageFailureIs500 == resp.dbfail => resp.status = 500

-----------------------------------------------------------------------------
(* C5 *)

\* C5: after update, add_reaction, remove_reaction, pin or unpin of an existing
\* message its updated_at is not earlier than the time of the request.
C5_EditRefreshesUpdatedAt ==
    resp.op \in EditOps /\ resp.status \in {200, 204} /\ HasTarget(messages) =>
        messages[Target].updated_at.at >= resp.at

-----------------------------------------------------------------------------
(* C6 *)

\* C6: the total of a file list response is at least the number of files of
\* its page.
C6_TotalCoversPage ==
    IsList({"list_files"}) => resp.body.total >= Len(resp.body.files)

-----------------------------------------------------------------------------
(* C7 *)

-----------------------------------------------------------------------------
(* C8 *)

Entries(arr, emoji) == {i \in DOMAIN arr : arr[i].emoji = emoji}

RemovedReaction ==
    /\ resp'.op = "remove_reaction" /\ resp'.status = 204
    /\ parse_str(resp'.id).oid \in DOMAIN messages

\* C8: remove_reaction(id, emoji) on an existing message leaves no entry with
\* that emoji, whoever added it, and every entry with another emoji, in order.
C8_RemoveReactionByEmoji ==
    [][RemovedReaction =>
        LET o == parse_str(resp'.id).oid
            e == unwrap(resp'.q)
            before == messages[o].reactions
            after == messages'[o].reactions
            kept == DOMAIN before \ Entries(before, e)
        IN  /\ Entries(after, e) = {}
            /\ Len(after) = Cardinality(kept)
            /\ \A i \in kept :
                  after[i - Cardinality({k \in Entries(before, e) : k < i})] = before[i]
    ]_vars

\* e1 has just been removed from a message and the entry of e2 is left
C8_Witness ==
    /\ resp.op = "remove_reaction" /\ resp.status = 204 /\ resp.q = Some("e1")
    /\ HasTarget(messages)
    /\ messages[Target].reactions = <<[emoji |-> "e2", user_ids |-> <<"u1">>, count |-> 1]>>

-----------------------------------------------------------------------------
(* C9 *)

AddedReaction ==
    /\ resp'.op = "add_reaction" /\ resp'.status = 200
    /\ parse_str(resp'.id).oid \in DOMAIN messages

ReactionsAreASet ==
    \A o \in DOMAIN messages :
        LET r == messages[o].reactions
        IN  /\ \A i, j \in DOMAIN r : i # j => r[i] # r[j]
            /\ \A i \in DOMAIN r : r[i].count = 1 /\ Len(r[i].user_ids) = 1

\* C9: add_reaction(id, user_id, emoji) on an existing message puts the entry
\* {emoji, [user_id], 1} in the reactions list once: the list is unchanged when
\* it holds the entry already and has the entry appended otherwise; entries
\* are never merged, so every entry has one user and count 1.
C9_AddReactionIsSetInsert ==
    /\ []ReactionsAreASet
    /\ [][AddedReaction =>
            LET o == parse_str(resp'.id).oid
                entry == [emoji |-> resp'.q.emoji, user_ids |-> <<resp'.q.user_id>>,
                          count |-> 1]
                before == messages[o].reactions
                after == messages'[o].reactions
            IN  /\ Cardinality({i \in DOMAIN after : after[i] = entry}) = 1
                /\ SubSeq(after, 1, Len(before)) = before
                /\ Len(after) = Len(before)
                      + (IF \E i \in DOMAIN before : before[i] = entry THEN 0 ELSE 1)
       ]_vars

\* Two users have reacted with e1: two entries
C9_Witness ==
    /\ resp.op = "add_reaction" /\ resp.status = 200
    /\ HasTarget(messages)
    /\ messages[Target].reactions =
          <<[emoji |-> "e1", user_ids |-> <<"u1">>, count |-> 1],
            [emoji |-> "e1", user_ids |-> <<"u2">>, count |-> 1]>>

-----------------------------------------------------------------------------
(* C10 *)

RequestedLimit ==
    IF resp.q.limit = None THEN 50
    ELSE IF unwrap(resp.q.limit) > 100 THEN 100 ELSE unwrap(resp.q.limit)

\* C10: in a list or get_channel_messages response has_more is true iff the
\* number of messages equals the limit in force, and cursor is the id of the
\* last message, absent for an empty page; get_thread_messages has no cursor.
C10_HasMoreAndCursor ==
    /\ IsList(MessageListOps) =>
          (resp.body.has_more <=> Len(Page) = RequestedLimit)
    /\ IsList({"list_messages", "get_channel_messages"}) =>
          IF Len(Page) = 0 THEN resp.body.cursor = None
          ELSE /\ is_some(resp.body.cursor)
               /\ parse_str(unwrap(resp.body.cursor)).ok
               /\ Some(parse_str(unwrap(resp.body.cursor)).oid) = Page[Len(Page)].id
    /\ IsList({"get_thread_messages"}) => resp.body.cursor = None

\* A list of two messages with no limit given: no more, cursor on the second
C10_Witness ==
    /\ IsList({"list_messages"})
    /\ resp.q.limit = None
    /\ Len(Page) = 2
    /\ ~resp.body.has_more
    /\ resp.body.cursor = Some(to_hex(unwrap(Page[2].id)))

-----------------------------------------------------------------------------
(* C11 *)

UpdatedMessage ==
    /\ resp'.op = "update_message" /\ resp'.status = 200
    /\ parse_str(resp'.id).oid \in DOMAIN messages

\* C11: update(id, content) on an existing message sets updated_at and
\* edited_at to the time the handler reads while it runs (updated_at the first
\* reading, edited_at the second), also when no content is supplied; content
\* becomes the supplied value, and stays as it was when none is supplied.
C11_UpdateStampsBoth ==
    [][UpdatedMessage =>
        LET o == parse_str(resp'.id).oid
            before == messages[o]
            after == messages'[o]
        IN  /\ after.updated_at.at = now
            /\ is_some(after.edited_at)
            /\ unwrap(after.edited_at).at = now'
            /\ now <= now'
            /\ after.content = IF is_some(resp'.q.content)
                               THEN unwrap(resp'.q.content) ELSE before.content
    ]_vars

\* A message created at time 0 has been updated at time 1 with no content
C11_Witness ==
    /\ resp.op = "update_message" /\ resp.status = 200 /\ resp.q.content = None
    /\ HasTarget(messages)
    /\ messages[Target].created_at.at = 0
    /\ messages[Target].updated_at.at = 1
    /\ messages[Target].edited_at = Some(bson_datetime(1))
    /\ messages[Target].content = "hi"

-----------------------------------------------------------------------------
(* C12 *)

DeleteOps == {"delete_file", "delete_message"}

\* C12: delete(id) with a well-formed id answers 204 unless the database
\* fails, whether or not a record has the id.  When none has it every stored
\* record is unchanged; when one has it, deleted or not, its deleted_at is set
\* to the time of the request and nothing else changes.
C12_DeleteIsPermissive ==
    [][resp'.op \in DeleteOps /\ parse_str(resp'.id).ok =>
        LET o == parse_str(resp'.id).oid
            before == IF resp'.op = "delete_file" THEN files ELSE messages
            after == IF resp'.op = "delete_file" THEN files' ELSE messages'
        IN  /\ resp'.status = IF resp'.dbfail THEN 500 ELSE 204
            /\ resp'.status = 204 /\ o \notin DOMAIN before => after = before
            /\ resp'.status = 204 /\ o \in DOMAIN before =>
                  /\ after = [before EXCEPT
                                ![o].deleted_at = Some(bson_datetime(now))]
                  /\ o \in Deleted(after)
    ]_vars

\* A delete of an id no message has, with a message stored, answered 204
C12_Witness ==
    /\ resp.op = "delete_message" /\ resp.status = 204
    /\ parse_str(resp.id).ok /\ ~HasTarget(messages)
    /\ Cardinality(DOMAIN messages) = 1
    /\ Deleted(messages) = {}

-----------------------------------------------------------------------------
(* C13 *)

ToggleOps == {"pin_message", "unpin_message", "share_file"}

\* C13: pin, unpin and share are idempotent.  A pin of a stored message,
\* deleted or not, leaves is_pinned true, an unpin false, a share of a stored
\* file is_public true; applied to a record that has the value already, the
\* stored record is left as it was.
C13_TogglesAreIdempotent ==
    [][resp'.op \in ToggleOps /\ resp'.status = 200 =>
        LET o == parse_str(resp'.id).oid
            before == IF resp'.op = "share_file" THEN files ELSE messages
            after == IF resp'.op = "share_file" THEN files' ELSE messages'
            field == IF resp'.op = "share_file" THEN "is_public" ELSE "is_pinned"
            value == resp'.op # "unpin_message"
        IN  o \in DOMAIN before =>
              /\ after[o][field] = value
              /\ before[o][field] = value => after = before
    ]_vars

\* A message soft-deleted at time 0 has been pinned at time 1
C13_Witness ==
    /\ resp.op = "pin_message" /\ resp.status = 200
    /\ HasTarget(messages)
    /\ Target \in Deleted(messages)
    /\ messages[Target].is_pinned
    /\ messages[Target].deleted_at = Some(bson_datetime(0))
    /\ resp.at = 1

-----------------------------------------------------------------------------
(* C14 *)

ReadOps == {"get_file", "list_files", "download_file", "get_message",
            "list_messages", "get_channel_messages", "get_thread_messages"}
CreateOps == {"upload_file", "create_message"}

\* The fields a request by id may change
Names(op) ==
    CASE op \in {"pin_message", "unpin_message"} -> {"is_pinned"}
      [] op = "share_file" -> {"is_public"}
      [] op \in DeleteOps -> {"deleted_at"}
      [] op \in {"add_reaction", "remove_reaction"} -> {"reactions"}
      [] op = "update_message" -> {"content", "updated_at", "edited_at"}
      [] OTHER -> {}

\* The records of before are in after, changed at most in record o and there
\* at most in the fields named
Frame(before, after, o, fields) ==
    /\ DOMAIN before \subseteq DOMAIN after
    /\ \A r \in DOMAIN before :
          /\ DOMAIN after[r] = DOMAIN before[r]
          /\ \A f \in DOMAIN before[r] :
                after[r][f] # before[r][f] => r = o /\ f \in fields

\* C14: a request by id changes at most the record with that id, and in it
\* only the fields the operation names; the other records, the other fields
\* and the other collection are left as they were; a create adds a record and
\* changes none; a request with a malformed id, a read, and a step that
\* answers no request change nothing.
C14_FrameConditions ==
    [][LET op == resp'.op
           byId == op \in EditOps \cup DeleteOps \cup {"share_file"}
           o == IF byId /\ parse_str(resp'.id).ok THEN parse_str(resp'.id).oid ELSE 0
       IN  /\ op \in ReadOps \cup {"idle"} \/ resp'.status = 400
                 => files' = files /\ messages' = messages
           /\ byId => /\ Frame(files, files', o, Names(op))
                       /\ Frame(messages, messages', o, Names(op))
                       /\ DOMAIN files' = DOMAIN files
                       /\ DOMAIN messages' = DOMAIN messages
           /\ op \in CreateOps => /\ Frame(files, files', 0, {})
                                    /\ Frame(messages, messages', 0, {})
    ]_vars

\* The first of two messages, which has a reaction, has been given new content
C14_Witness ==
    /\ resp.op = "update_message" /\ resp.status = 200
    /\ resp.q.content = Some("yo")
    /\ HasTarget(messages)
    /\ Cardinality(DOMAIN messages) = 2
    /\ messages[Target].content = "yo"
    /\ Len(messages[Target].reactions) = 1
    /\ \E r \in DOMAIN messages : messages[r].content = "hi"

====
